---------------------------- MODULE Spec2Model ----------------------------
(***************************************************************************)
(* Weight / exercise tracker (src/app.py): the record store (flat files),  *)
(* the load-time normaliser, the CSV merge engine and the add/update and   *)
(* delete handlers of the Streamlit script, as a state machine.            *)
(*                                                                         *)
(* Values.  A cell or an in-memory value is a pair <<kind, payload>>:      *)
(*   <<"iso", d>>   the text YYYY-MM-DD of calendar day d                  *)
(*   <<"date", d>>  a datetime.date object for day d                       *)
(*   <<"nat", 0>>   NaT (no date)                                          *)
(*   <<"num", n>>   a finite number; weights are counted in hundredths of  *)
(*                  a kg (7004 is 70.04), durations in tenths of a minute  *)
(*                  (304 is 30.4)                                          *)
(*   <<"inf", 0>>   a numeric literal that is not finite or does not fit   *)
(*                  int64 (inf, 1e30)                                      *)
(*   <<"nan", 0>>   NaN (missing)                                          *)
(*   <<"bad", 0>>   text that is neither a date nor a number               *)
(*   <<"str", s>>   text s (activity labels)                               *)
(***************************************************************************)
EXTENDS Integers, Sequences, FiniteSets, TLC

\* ------------------------------------------------------------------ bounds
MaxDate == 2
MaxRows == 2
MaxUpload == 2

Dates == 1..MaxDate

\* ------------------------------------------------------ sequence helpers
SeqsUpTo(S, n) == UNION {[1..k -> S] : k \in 0..n}

\* The rows of s at the positions idx, in their order (a boolean mask).
\* (Here and below, "\o <<>>" only makes TLC hold the sequence as a tuple.)
Mask(s, idx) ==
    LET pos(i) == Cardinality({j \in idx : j <= i})
    IN  [p \in 1..Cardinality(idx) |-> s[CHOOSE i \in idx : pos(i) = p]] \o <<>>

\* ---------------------------------------------------------- conversions
NaT == <<"nat", 0>>
NaN == <<"nan", 0>>
Bad == <<"bad", 0>>
Inf == <<"inf", 0>>
DateObj(d) == <<"date", d>>
IsoText(d) == <<"iso", d>>
Num(n) == <<"num", n>>
Str(s) == <<"str", s>>

IsNA(c) == c[1] \in {"nat", "nan"}

\* pd.to_datetime(col, errors="coerce").dt.date
to_datetime_date_text_only(c) ==
    IF c[1] = "iso" THEN DateObj(c[2]) ELSE NaT

to_datetime_date(c) ==
    IF c[1] \in {"iso", "date"} THEN DateObj(c[2]) ELSE NaT

\* pd.to_datetime(col).dt.date.astype(str): a date prints as its ISO text,
\* NaT as the text "NaT", which is no date.
date_astype_str(c) ==
    IF c[1] \in {"iso", "date"} THEN IsoText(c[2]) ELSE Bad

\* pd.to_numeric(col, errors="coerce")
to_numeric(c) ==
    IF c[1] \in {"num", "inf"} THEN c ELSE NaN

\* numpy's round: to the nearest multiple of unit, a tie to the even one
RoundHalfEven(n, unit) ==
    LET q == n \div unit
        r == n % unit
    IN  IF 2 * r < unit THEN q * unit
        ELSE IF 2 * r > unit THEN (q + 1) * unit
        ELSE IF q % 2 = 0 THEN q * unit ELSE (q + 1) * unit

\* Series.round(1) of a weight (hundredths -> a multiple of ten hundredths)
round1(c) ==
    IF c[1] = "num" THEN Num(RoundHalfEven(c[2], 10)) ELSE c

\* Series.round(0) of a duration (tenths -> a multiple of ten tenths)
round0(c) ==
    IF c[1] = "num" THEN Num(RoundHalfEven(c[2], 10)) ELSE c

\* Text order of the activity labels the model uses (code point order).
ActOrder == <<"", "NA", "nan", "run", "walk">>

ActRank(c) ==
    IF c[1] = "str" /\ \E k \in 1..Len(ActOrder) : ActOrder[k] = c[2]
    THEN CHOOSE k \in 1..Len(ActOrder) : ActOrder[k] = c[2]
    ELSE Len(ActOrder) + 1

\* Order of a date column: by day, both for date objects and for ISO text
\* (YYYY-MM-DD sorts as the day does); any other text sorts after them.
DateKey(c) == IF c[1] \in {"iso", "date"} THEN c[2] ELSE MaxDate + 1

\* The key of a row: date for a weight row, (date, activity) for an exercise
\* row, as one integer that orders rows as the key columns do.
RowKey(r) ==
    IF "activity" \in DOMAIN r
    THEN DateKey(r.date) * (Len(ActOrder) + 2) + ActRank(r.activity)
    ELSE DateKey(r.date)

\* DataFrame.sort_values(key columns): ascending, equal keys keep their
\* order (the sort pandas runs is stable for the short tables modelled).
sort_values(s) ==
    LET n == Len(s)
        key == [i \in 1..n |-> RowKey(s[i])] \o <<>>
        pos == [i \in 1..n |->
                  Cardinality({j \in 1..n :
                      key[j] < key[i] \/ (key[j] = key[i] /\ j <= i)})] \o <<>>
    IN  [p \in 1..n |-> s[CHOOSE i \in 1..n : pos[i] = p]] \o <<>>

\* DataFrame.drop_duplicates(subset=key columns, keep="last")
drop_duplicates(s) ==
    LET key == [i \in 1..Len(s) |-> RowKey(s[i])] \o <<>>
    IN  Mask(s, {i \in 1..Len(s) : \A j \in (i+1)..Len(s) : key[j] # key[i]})

IsSorted(s) == \A i \in 1..(Len(s)-1) : RowKey(s[i]) <= RowKey(s[i+1])

UniqueKeys(s) == \A i, j \in 1..Len(s) : i # j => RowKey(s[i]) # RowKey(s[j])

\* ------------------------------------------------------------ the files
\* A backing file: absent, unparseable ("garbage"), or a delimited table
\* with a header (cols) and rows.
Absent == [st |-> "absent", cols |-> {}, rows |-> <<>>]
Garbage == [st |-> "garbage", cols |-> {}, rows |-> <<>>]
Table(cols, rows) == [st |-> "table", cols |-> cols, rows |-> rows]

WeightCols == {"date", "weight"}
ExerciseCols == {"date", "activity", "duration_min"}

Ok(rows) == [err |-> "none", rows |-> rows]
Raise(e) == [err |-> e, rows |-> <<>>]


\* pandas' default NA tokens: read_csv reads a cell holding one of them as
\* NaN, also in a column declared dtype=str.
NaTokens ==
    {"", "#N/A", "#N/A N/A", "#NA", "-1.#IND", "-1.#QNAN", "-NaN", "-nan",
     "1.#IND", "1.#QNAN", "<NA>", "N/A", "NA", "NULL", "NaN", "None", "n/a",
     "nan", "null"}

read_csv_cell(c) ==
    IF c[1] = "str" /\ c[2] \in NaTokens THEN NaN ELSE c

\* pd.read_csv(path): raises for a missing or unparseable file, else the
\* table with NA tokens read as NaN.
read_csv(file) ==
    IF file.st # "table" THEN Raise("ReadError")
    ELSE Ok([i \in 1..Len(file.rows) |->
                [c \in DOMAIN file.rows[i] |-> read_csv_cell(file.rows[i][c])]]
            \o <<>>)

\* DataFrame.to_csv(path): the whole file is replaced by header and rows.
to_csv(cols, rows) == Table(cols, rows)

\* --------------------------------------------------------------- weights
\* load_weights, lines 58-67: the cleaning of a non-empty table
clean_weights(rows) ==
    LET typed == [i \in 1..Len(rows) |->
                    [date |-> to_datetime_date(rows[i].date),
                     weight |-> round1(to_numeric(rows[i].weight))]] \o <<>>
    IN  Mask(typed, {i \in 1..Len(typed) :
                       ~IsNA(typed[i].date) /\ ~IsNA(typed[i].weight)})

normalize_weights(rows) == drop_duplicates(sort_values(clean_weights(rows)))

load_weights(file) ==
    LET rd == read_csv(file)
        df0 == IF rd.err # "none" THEN <<>> ELSE rd.rows
        df1 == IF ~(WeightCols \subseteq file.cols) THEN <<>> ELSE df0
    IN  IF df1 # <<>> THEN Ok(normalize_weights(df1)) ELSE Ok(<<>>)

\* save_weights: the file it writes
save_weights(df) ==
    LET out == [i \in 1..Len(df) |->
                    [date |-> date_astype_str(df[i].date),
                     weight |-> round1(to_numeric(df[i].weight))]] \o <<>>
        kept == Mask(out, {i \in 1..Len(out) :
                             ~IsNA(out[i].date) /\ ~IsNA(out[i].weight)})
    IN  IF df # <<>> THEN to_csv(WeightCols, sort_values(kept))
        ELSE to_csv(WeightCols, <<>>)

\* ------------------------------------------------------------- exercises
DurationMin == 0
DurationMax == 14400

\* Series.astype("Int64"): NaN becomes <NA>; a value that is not finite or
\* does not fit int64 raises.
astype_Int64_raises(rows) == \E i \in 1..Len(rows) : rows[i].duration_min[1] = "inf"

\* Series.astype(str): NaN prints as the text nan
astype_str(c) == IF c[1] = "str" THEN c ELSE Str("nan")

in_duration_range_any(c) == c[1] = "num"

in_duration_range(c) ==
    c[1] = "num" /\ DurationMin <= c[2] /\ c[2] <= DurationMax

\* load_exercises, lines 116-126: the cleaning of a non-empty table
normalize_exercises(rows) ==
    LET typed == [i \in 1..Len(rows) |->
                    [date |-> to_datetime_date(rows[i].date),
                     activity |-> astype_str(rows[i].activity),
                     duration_min |-> round0(to_numeric(rows[i].duration_min))]]
                 \o <<>>
        clean == Mask(typed, {i \in 1..Len(typed) :
                                /\ ~IsNA(typed[i].date)
                                /\ ~IsNA(typed[i].activity)
                                /\ ~IsNA(typed[i].duration_min)})
        inrng == Mask(clean, {i \in 1..Len(clean) :
                                in_duration_range(clean[i].duration_min)})
    IN  IF astype_Int64_raises(typed) THEN Raise("TypeError")
        ELSE Ok(drop_duplicates(sort_values(inrng)))

load_exercises(file) ==
    LET rd == read_csv(file)
        df0 == IF rd.err # "none" THEN <<>> ELSE rd.rows
        df1 == IF ExerciseCols \ file.cols # {} THEN <<>> ELSE df0
    IN  IF df1 # <<>> THEN normalize_exercises(df1) ELSE Ok(<<>>)

\* Series.astype(int): raises for NaN and for a value that is not finite
astype_int_raises(rows) ==
    \E i \in 1..Len(rows) : rows[i].duration_min[1] # "num"

\* save_exercises: the file it writes, or the error it raises before writing
save_exercises(df) ==
    LET out == [i \in 1..Len(df) |->
                    [date |-> date_astype_str(df[i].date),
                     activity |-> astype_str(df[i].activity),
                     duration_min |-> round0(to_numeric(df[i].duration_min))]]
               \o <<>>
    IN  IF df = <<>> THEN [err |-> "none", file |-> to_csv(ExerciseCols, <<>>)]
        ELSE IF astype_int_raises(out)
        THEN [err |-> "ValueError", file |-> Absent]
        ELSE [err |-> "none", file |-> to_csv(ExerciseCols, sort_values(out))]

\* -------------------------------------------------------------- settings
\* The settings file: absent, not JSON ("garbage"), a JSON value that is no
\* object ("nonobject": a list, a number, null, a string), or an object whose
\* goal_weight is gw: <<"missing",0>>, <<"null",0>>, <<"num",n>>,
\* <<"numstr",n>> (a string holding a number), <<"bad",0>> (any other string,
\* a list, an object), <<"bool",b>>.
SettingsFile(st, gw) == [st |-> st, gw |-> gw]
JNull == <<"null", 0>>
DefaultSettings == SettingsFile("object", JNull)

Settings(gw) == [err |-> "none", goal_weight |-> gw]

\* float(gw), then round(., 1); None when float() raises
float_round1(gw) ==
    CASE gw[1] \in {"num", "numstr"} -> Num(RoundHalfEven(gw[2], 10))
      [] gw[1] = "bool" -> Num(100 * gw[2])
      [] OTHER -> JNull

load_settings(file) ==
    LET data == IF file.st \in {"absent", "garbage"} THEN DefaultSettings ELSE file
    IN  IF data.st = "nonobject"
        THEN [err |-> "AttributeError", goal_weight |-> JNull]
        ELSE IF data.gw[1] \in {"missing", "null"} THEN Settings(JNull)
        ELSE Settings(float_round1(data.gw))

save_settings(gw) == SettingsFile("object", gw)

\* ----------------------------------------------------------------- merge
WeightMin == 2000
WeightMax == 30000

RequiredCols_date_only == {"date"}

RequiredCols == {"date", "weight"}

in_weight_range_any(c) == c[1] = "num"

in_weight_range(c) ==
    c[1] = "num" /\ WeightMin <= c[2] /\ c[2] <= WeightMax

\* merge_uploaded_csv, lines 156-161: the uploaded rows typed, rounded,
\* without the rows that failed coercion and without the out-of-range ones
valid_upload(rows) ==
    LET typed == [i \in 1..Len(rows) |->
                    [date |-> to_datetime_date(rows[i].date),
                     weight |-> round1(to_numeric(rows[i].weight))]] \o <<>>
        clean == Mask(typed, {i \in 1..Len(typed) :
                                ~IsNA(typed[i].date) /\ ~IsNA(typed[i].weight)})
    IN  Mask(clean, {i \in 1..Len(clean) : in_weight_range(clean[i].weight)})

HasDate(rows, d) == \E i \in 1..Len(rows) : rows[i].date = d

HasSession(rows, d, a) ==
    \E i \in 1..Len(rows) : rows[i].date = d /\ rows[i].activity = a

\* base.loc[up_idx.index, "weight"] = up_idx (line 173): .loc with a list of
\* labels raises KeyError when a label is not in the index; otherwise each
\* labelled row takes the uploaded value, the last one given for its label.
loc_set_weight_skip_missing(base, up) ==
    Ok([b \in 1..Len(base) |->
           IF HasDate(up, base[b].date)
           THEN [base[b] EXCEPT !.weight =
                   up[CHOOSE i \in 1..Len(up) :
                         /\ up[i].date = base[b].date
                         /\ \A j \in (i+1)..Len(up) : up[j].date # base[b].date
                     ].weight]
           ELSE base[b]] \o <<>>)

loc_set_weight(base, up) ==
    IF \E i \in 1..Len(up) : ~HasDate(base, up[i].date)
    THEN Raise("KeyError")
    ELSE Ok([b \in 1..Len(base) |->
                IF HasDate(up, base[b].date)
                THEN [base[b] EXCEPT !.weight =
                        up[CHOOSE i \in 1..Len(up) :
                              /\ up[i].date = base[b].date
                              /\ \A j \in (i+1)..Len(up) : up[j].date # base[b].date
                          ].weight]
                ELSE base[b]] \o <<>>)

\* up_idx.index.difference(base.index), lines 175-177: the uploaded rows
\* whose date the stored index lacks, by date and then in upload order
new_date_rows(base, up) ==
    sort_values(Mask(up, {i \in 1..Len(up) : ~HasDate(base, up[i].date)}))

merge_uploaded_csv(df, up) ==
    IF ~(RequiredCols \subseteq up.cols) THEN Raise("ValueError")
    ELSE IF ~({"date", "weight"} \subseteq up.cols) THEN Raise("KeyError")
    ELSE LET v == valid_upload(up.rows)
             set == loc_set_weight(df, v)
         IN  IF v = <<>> THEN Ok(sort_values(df))
             ELSE IF set.err # "none" THEN set
             ELSE Ok(sort_values(set.rows \o new_date_rows(df, v)))

\* -------------------------------------------------------------- handlers
\* lines 504-512: add or replace the weight of day d
weight_upsert_keep_old(df, d, w) ==
    sort_values(df \o <<[date |-> DateObj(d), weight |-> round1(Num(w))]>>)

weight_upsert_new_only(df, d, w) ==
    <<[date |-> DateObj(d), weight |-> round1(Num(w))]>>

weight_upsert(df, d, w) ==
    LET new_row == [date |-> DateObj(d), weight |-> round1(Num(w))]
        others == Mask(df, {i \in 1..Len(df) : df[i].date # DateObj(d)})
    IN  sort_values(IF df = <<>> THEN <<new_row>> ELSE others \o <<new_row>>)

\* line 519: the collection without day d
weight_delete(df, d) ==
    Mask(df, {i \in 1..Len(df) : df[i].date # DateObj(d)})

\* lines 602-613: add or replace the session (d, act)
exercise_upsert(ex, d, act, dur) ==
    LET new_ex == [date |-> DateObj(d), activity |-> Str(act),
                   duration_min |-> Num(dur)]
        others == Mask(ex, {i \in 1..Len(ex) :
                              ~(ex[i].date = DateObj(d) /\ ex[i].activity = Str(act))})
    IN  sort_values(IF ex = <<>> THEN <<new_ex>> ELSE others \o <<new_ex>>)

\* line 625: the collection without the session (d, act)
exercise_delete(ex, d, act) ==
    Mask(ex, {i \in 1..Len(ex) :
                ~(ex[i].date = DateObj(d) /\ ex[i].activity = Str(act))})

\* lines 743-746: base without the sessions selected in the table
exercise_batch_delete(base, sel) ==
    Mask(base, {i \in 1..Len(base) :
                  \A k \in 1..Len(sel) :
                      ~(base[i].date = sel[k].date
                        /\ astype_str(base[i].activity) = astype_str(sel[k].activity))})

\* ensure_storage: each missing file is created, an existing one is left
ensure_weights_overwrite(f) == to_csv(WeightCols, <<>>)

ensure_weights(f) == IF f.st = "absent" THEN to_csv(WeightCols, <<>>) ELSE f
ensure_exercises(f) == IF f.st = "absent" THEN to_csv(ExerciseCols, <<>>) ELSE f
ensure_settings(f) == IF f.st = "absent" THEN DefaultSettings ELSE f

\* ------------------------------------------------------- input domains
\* What a stored file may hold when a run starts: the files are plain text
\* that is also edited by hand.
RawWeightRows ==
    [date : {IsoText(d) : d \in Dates} \cup {Bad},
     weight : {Num(7004), Num(7106), Bad}]

RawWeightFiles ==
    {Absent, Garbage, Table({"date"}, <<[date |-> IsoText(1)]>>)}
    \cup {Table(WeightCols, r) : r \in SeqsUpTo(RawWeightRows, MaxRows)}

RawExerciseRows ==
    [date : {IsoText(d) : d \in Dates} \cup {Bad},
     activity : {Str("run"), Str("")},
     duration_min : {Num(304), Num(15000), Inf, Bad}]

RawExerciseFiles ==
    {Absent, Garbage, Table({"date", "activity"}, <<>>)}
    \cup {Table(ExerciseCols, r) : r \in SeqsUpTo(RawExerciseRows, MaxRows)}

RawSettingsFiles ==
    {SettingsFile(st, JNull) : st \in {"absent", "garbage", "nonobject"}}
    \cup {SettingsFile("object", gw) :
            gw \in {<<"missing", 0>>, JNull, Num(6504), <<"numstr", 6504>>,
                    Bad, <<"bool", 1>>}}

\* The stored files the runs of the script start from
StoredWeightRows ==
    [date : {IsoText(d) : d \in Dates}, weight : {Num(7004)}]

StoredWeightFiles ==
    {Absent, Garbage}
    \cup {Table(WeightCols, r) : r \in SeqsUpTo(StoredWeightRows, MaxRows)}

StoredExerciseRows ==
    [date : {IsoText(d) : d \in Dates},
     activity : {Str("run")},
     duration_min : {Num(304), Num(15000), Inf}]

StoredExerciseFiles ==
    {Absent, Garbage}
    \cup {Table(ExerciseCols, r) : r \in SeqsUpTo(StoredExerciseRows, MaxRows)}

\* What the widgets hand to the handlers
WeightInputs == {7004, 7250}
GoalInputs == {6504}
ActivityInputs == {"run", "NA", ""}
DurationInputs == {300, 14410}

Writers == {"A", "B"}

\* ------------------------------------------------------------------ state
VARIABLES
    wfile,      \* data/weights.csv
    efile,      \* data/exercises.csv
    sfile,      \* data/settings.json
    upload,     \* the uploaded table handed to merge_uploaded_csv
    pc,         \* per writer: "idle" (no run) or "form" (run past its loads)
    df,         \* per writer: the weights its run loaded (line 245)
    ex_df,      \* per writer: the exercises its run loaded (line 536)
    call,       \* the last operation, who ran it, and whether its key was stored
    ret         \* what the last operation returned or raised

vars == <<wfile, efile, sfile, upload, pc, df, ex_df, call, ret>>

NoUpload == Table({}, <<>>)
\* hit: whether the key the operation names was in the loaded collection
Call(op, who, hit) == [op |-> op, who |-> who, hit |-> hit]

\* The days a weight file holds when it is loaded
StoredDates(file) ==
    {load_weights(file).rows[i].date[2] : i \in 1..Len(load_weights(file).rows)}

\* lost: the days the file held before the operation's save and not after
CallLost(op, who, hit, lost) == [op |-> op, who |-> who, hit |-> hit, lost |-> lost]

InitLocal ==
    /\ pc = [s \in Writers |-> "idle"]
    /\ df = [s \in Writers |-> <<>>]
    /\ ex_df = [s \in Writers |-> <<>>]
    /\ call = Call("init", "A", FALSE)
    /\ ret = Ok(<<>>)

Init ==
    /\ InitLocal
    /\ upload = NoUpload
    /\ \/ wfile \in StoredWeightFiles /\ efile = Absent /\ sfile = Absent
       \/ wfile = Absent /\ efile \in StoredExerciseFiles /\ sfile = Absent
       \/ wfile = Absent /\ efile = Absent /\ sfile \in RawSettingsFiles

\* ------------------------------------------------------------------- runs
\* A run of the script up to its forms (lines 242-246, 393 and 536):
\* ensure_storage, then the loads.  A load that raises ends the run before
\* any form is drawn.
Begin(s) ==
    /\ pc[s] = "idle"
    /\ wfile' = ensure_weights(wfile)
    /\ sfile' = ensure_settings(sfile)
    /\ efile' = ensure_exercises(efile)
    /\ LET ls == load_settings(sfile')
           le == load_exercises(efile')
           up == ls.err = "none" /\ le.err = "none"
       IN  /\ ret' = IF ls.err # "none" THEN Raise(ls.err)
                     ELSE IF le.err # "none" THEN Raise(le.err)
                     ELSE Ok(<<>>)
           /\ pc' = [pc EXCEPT ![s] = IF up THEN "form" ELSE "idle"]
           /\ df' = [df EXCEPT ![s] = IF up THEN load_weights(wfile').rows
                                      ELSE <<>>]
           /\ ex_df' = [ex_df EXCEPT ![s] = IF up THEN le.rows ELSE <<>>]
    /\ call' = Call("begin", s, FALSE)
    /\ UNCHANGED upload

\* The run ends: the script's variables df and ex_df are gone.
EndRun(s) ==
    /\ pc' = [pc EXCEPT ![s] = "idle"]
    /\ df' = [df EXCEPT ![s] = <<>>]
    /\ ex_df' = [ex_df EXCEPT ![s] = <<>>]

\* The run ends with no button pressed.
View(s) ==
    /\ pc[s] = "form"
    /\ call' = Call("view", s, FALSE)
    /\ ret' = Ok(<<>>)
    /\ EndRun(s)
    /\ UNCHANGED <<wfile, efile, sfile, upload>>

\* lines 457-460
SaveGoal(s, g) ==
    /\ pc[s] = "form"
    /\ sfile' = save_settings(round1(Num(g)))
    /\ call' = Call("save_goal", s, FALSE)
    /\ ret' = Ok(<<>>)
    /\ EndRun(s)
    /\ UNCHANGED <<wfile, efile, upload>>

\* lines 502-514
AddWeight(s, d, w) ==
    /\ pc[s] = "form"
    /\ wfile' = save_weights(weight_upsert(df[s], d, w))
    /\ call' = CallLost("add_weight", s, HasDate(df[s], DateObj(d)),
                        StoredDates(wfile) \ StoredDates(wfile'))
    /\ ret' = Ok(<<>>)
    /\ EndRun(s)
    /\ UNCHANGED <<efile, sfile, upload>>

\* lines 516-526
DelWeight(s, d) ==
    /\ pc[s] = "form"
    /\ LET after == weight_delete(df[s], d)
       IN  wfile' = IF df[s] # <<>> /\ Len(after) # Len(df[s])
                    THEN save_weights(after) ELSE wfile
    /\ call' = Call("del_weight", s, HasDate(df[s], DateObj(d)))
    /\ ret' = Ok(<<>>)
    /\ EndRun(s)
    /\ UNCHANGED <<efile, sfile, upload>>

\* lines 592-596 and 620-624: str(...).strip() of the activity field; the
\* model's labels carry no surrounding blanks.
chosen_activity(act) == act

\* lines 590-615; the warnings of lines 597-600 leave the file alone
AddExercise(s, d, act, dur) ==
    /\ pc[s] = "form"
    /\ LET sv == save_exercises(exercise_upsert(ex_df[s], d, chosen_activity(act), dur))
           accepted == /\ chosen_activity(act) # ""
                       /\ ~(dur < DurationMin \/ dur > DurationMax)
       IN  /\ efile' = IF accepted /\ sv.err = "none" THEN sv.file ELSE efile
           /\ ret' = IF accepted /\ sv.err # "none" THEN Raise(sv.err) ELSE Ok(<<>>)
           /\ call' = IF accepted
                      THEN Call("add_exercise", s,
                                HasSession(ex_df[s], DateObj(d), Str(act)))
                      ELSE IF chosen_activity(act) = ""
                      THEN Call("add_exercise_rejected", s, FALSE)
                      ELSE Call("add_exercise_out_of_range", s, FALSE)
    /\ EndRun(s)
    /\ UNCHANGED <<wfile, sfile, upload>>

\* lines 617-632
DelExercise(s, d, act) ==
    /\ pc[s] = "form"
    /\ LET after == exercise_delete(ex_df[s], d, chosen_activity(act))
           sv == save_exercises(after)
           writes == ex_df[s] # <<>> /\ Len(after) # Len(ex_df[s])
       IN  /\ efile' = IF writes /\ sv.err = "none" THEN sv.file ELSE efile
           /\ ret' = IF writes /\ sv.err # "none" THEN Raise(sv.err) ELSE Ok(<<>>)
           /\ call' = Call("del_exercise", s, writes)
    /\ EndRun(s)
    /\ UNCHANGED <<wfile, sfile, upload>>

\* lines 736-751: the rows ticked in the table (at the positions idx of the
\* loaded collection) are removed from a fresh load of the file
BatchDelExercise(s, idx) ==
    /\ pc[s] = "form"
    /\ LET sel == Mask(ex_df[s], idx)
           ld == load_exercises(efile)
           after == exercise_batch_delete(ld.rows, sel)
           sv == save_exercises(after)
           writes == sel # <<>> /\ ld.err = "none" /\ Len(after) # Len(ld.rows)
       IN  /\ efile' = IF writes /\ sv.err = "none" THEN sv.file ELSE efile
           /\ ret' = IF sel # <<>> /\ ld.err # "none" THEN Raise(ld.err)
                     ELSE IF writes /\ sv.err # "none" THEN Raise(sv.err)
                     ELSE Ok(<<>>)
           /\ call' = Call("batch_del_exercise", s, writes)
    /\ EndRun(s)
    /\ UNCHANGED <<wfile, sfile, upload>>

Run(s) ==
    \/ Begin(s)
    \/ View(s)
    \/ \E g \in GoalInputs : SaveGoal(s, g)
    \/ \E d \in Dates, w \in WeightInputs : AddWeight(s, d, w)
    \/ \E d \in Dates : DelWeight(s, d)
    \/ \E d \in Dates, act \in ActivityInputs, dur \in DurationInputs :
          AddExercise(s, d, act, dur)
    \/ \E d \in Dates, act \in ActivityInputs : DelExercise(s, d, act)
    \/ \E idx \in SUBSET (1..Len(ex_df[s])) : BatchDelExercise(s, idx)

\* One interactive user.
Next == Run("A")

Spec == Init /\ [][Next]_vars

\* ------------------------------------------------------------ two writers
\* Two browser sessions: each run of the script loads the file (Begin) and,
\* on a submit, saves the whole collection it loaded with its change made
\* (AddWeight); nothing orders the runs of the two sessions.
InitRace ==
    /\ InitLocal
    /\ upload = NoUpload
    /\ wfile \in StoredWeightFiles /\ efile = Absent /\ sfile = Absent

NextRace ==
    \E s \in Writers :
        \/ Begin(s)
        \/ \E d \in Dates, w \in WeightInputs : AddWeight(s, d, w)

SpecRace == InitRace /\ [][NextRace]_vars

\* ------------------------------------------------- the store, call by call
\* The loaders and savers called one at a time, on any stored file and on
\* any valid in-memory collection.
ValidWeightRows ==
    [date : {DateObj(d) : d \in Dates}, weight : {Num(7000), Num(7250)}]

ValidWeights == {c \in SeqsUpTo(ValidWeightRows, MaxRows) : UniqueKeys(c)}

ValidExerciseRows ==
    [date : {DateObj(d) : d \in Dates},
     activity : {Str("run"), Str("NA")},
     duration_min : {Num(300)}]

ValidExercises == {c \in SeqsUpTo(ValidExerciseRows, MaxRows) : UniqueKeys(c)}

InitStore ==
    /\ pc = [s \in Writers |-> "idle"]
    /\ call = Call("init", "A", FALSE)
    /\ ret = Ok(<<>>)
    /\ upload = NoUpload
    /\ \/ /\ wfile \in RawWeightFiles
          /\ df = [s \in Writers |-> <<>>]
          /\ efile = Absent /\ ex_df = [s \in Writers |-> <<>>] /\ sfile = Absent
       \/ /\ wfile = Absent
          /\ \E c \in ValidWeights : df = [s \in Writers |-> c]
          /\ efile = Absent /\ ex_df = [s \in Writers |-> <<>>] /\ sfile = Absent
       \/ /\ efile \in RawExerciseFiles
          /\ ex_df = [s \in Writers |-> <<>>]
          /\ wfile = Absent /\ df = [s \in Writers |-> <<>>] /\ sfile = Absent
       \/ /\ efile = Absent
          /\ \E c \in ValidExercises : ex_df = [s \in Writers |-> c]
          /\ wfile = Absent /\ df = [s \in Writers |-> <<>>] /\ sfile = Absent
       \/ /\ sfile \in RawSettingsFiles
          /\ wfile = Absent /\ df = [s \in Writers |-> <<>>]
          /\ efile = Absent /\ ex_df = [s \in Writers |-> <<>>]

\* df = load_weights()
LoadWeights(s) ==
    /\ pc[s] = "idle"
    /\ ret' = load_weights(wfile)
    /\ call' = Call("load_weights", s, FALSE)
    /\ pc' = [pc EXCEPT ![s] = "loaded"]
    /\ UNCHANGED <<wfile, efile, sfile, upload, df, ex_df>>

\* save_weights(df)
SaveWeights(s) ==
    /\ pc[s] = "idle"
    /\ wfile' = save_weights(df[s])
    /\ ret' = Ok(<<>>)
    /\ call' = Call("save_weights", s, FALSE)
    /\ pc' = [pc EXCEPT ![s] = "saved"]
    /\ UNCHANGED <<efile, sfile, upload, df, ex_df>>

\* ex_df = load_exercises()
LoadExercises(s) ==
    /\ pc[s] = "idle"
    /\ ret' = load_exercises(efile)
    /\ call' = Call("load_exercises", s, FALSE)
    /\ pc' = [pc EXCEPT ![s] = "loaded"]
    /\ UNCHANGED <<wfile, efile, sfile, upload, df, ex_df>>

\* save_exercises(ex_df)
SaveExercises(s) ==
    /\ pc[s] = "idle"
    /\ LET sv == save_exercises(ex_df[s])
       IN  /\ efile' = IF sv.err = "none" THEN sv.file ELSE efile
           /\ ret' = IF sv.err = "none" THEN Ok(<<>>) ELSE Raise(sv.err)
    /\ call' = Call("save_exercises", s, FALSE)
    /\ pc' = [pc EXCEPT ![s] = "saved"]
    /\ UNCHANGED <<wfile, sfile, upload, df, ex_df>>

\* settings = load_settings()
LoadSettings(s) ==
    /\ pc[s] = "idle"
    /\ ret' = load_settings(sfile)
    /\ call' = Call("load_settings", s, FALSE)
    /\ pc' = [pc EXCEPT ![s] = "loaded"]
    /\ UNCHANGED <<wfile, efile, sfile, upload, df, ex_df>>

\* The caller goes on to its next call.
Return(s) ==
    /\ pc[s] \in {"loaded", "saved"}
    /\ pc' = [pc EXCEPT ![s] = "idle"]
    /\ UNCHANGED <<wfile, efile, sfile, upload, df, ex_df, call, ret>>

NextStore ==
    \/ LoadWeights("A")
    \/ SaveWeights("A")
    \/ LoadExercises("A")
    \/ SaveExercises("A")
    \/ LoadSettings("A")
    \/ Return("A")

SpecStore == InitStore /\ [][NextStore]_vars

\* ------------------------------------------------------- the merge call
\* merge_uploaded_csv(df, csv_bytes) on the loaded collection and any
\* uploaded table.
UploadRows ==
    [date : {IsoText(d) : d \in Dates},
     weight : {Num(7250), Num(30004), Num(31000), Bad}]

Uploads ==
    {Table(WeightCols, r) : r \in SeqsUpTo(UploadRows, MaxUpload)}
    \cup {Table({"date"}, <<[date |-> IsoText(1)]>>),
          Table({"weight"}, <<[weight |-> Num(7250)]>>),
          Table({}, <<>>)}

InitMerge ==
    /\ InitLocal
    /\ wfile \in StoredWeightFiles
    /\ efile = Absent
    /\ sfile = Absent
    /\ upload \in Uploads

\* df = load_weights()
MergeLoad(s) ==
    /\ pc[s] = "idle"
    /\ df' = [df EXCEPT ![s] = load_weights(wfile).rows]
    /\ call' = Call("load_weights", s, FALSE)
    /\ ret' = Ok(df'[s])
    /\ pc' = [pc EXCEPT ![s] = "form"]
    /\ UNCHANGED <<wfile, efile, sfile, upload, ex_df>>

\* merge_uploaded_csv(df, csv_bytes): returns or raises, writes nothing
Merge(s) ==
    /\ pc[s] = "form"
    /\ ret' = merge_uploaded_csv(df[s], upload)
    /\ call' = Call("merge", s, FALSE)
    /\ pc' = [pc EXCEPT ![s] = "merged"]
    /\ UNCHANGED <<wfile, efile, sfile, upload, df, ex_df>>

NextMerge ==
    \/ MergeLoad("A")
    \/ Merge("A")

SpecMerge == InitMerge /\ [][NextMerge]_vars

\* ============================================================ properties
\* C1: after an add-or-update of a weight, and after an accepted add-or-update
\* of an exercise session, the file just saved holds at most one row per date
\* (per (date, activity) pair), and so does the collection loaded from it.
C1_UpsertKeysUnique ==
    /\ call.op = "add_weight" =>
          /\ wfile.st = "table"
          /\ UniqueKeys(wfile.rows)
          /\ UniqueKeys(load_weights(wfile).rows)
    /\ call.op = "add_exercise" =>
          /\ ret.err = "none"
          /\ efile.st = "table"
          /\ UniqueKeys(efile.rows)
          /\ load_exercises(efile).err = "none"
          /\ UniqueKeys(load_exercises(efile).rows)

\* C1 witness: a session that was stored has just been updated, two sessions
\* are stored, and the weights file holds two days, one of them entered
\* through the weight form.
C1_Witness ==
    /\ call.op = "add_exercise"
    /\ call.hit
    /\ Len(efile.rows) = 2
    /\ Len(wfile.rows) = 2
    /\ \E i \in 1..Len(wfile.rows) : wfile.rows[i].weight = Num(7250)

\* The weight a batch gives for day d: one of the values its valid rows hold
UploadGives(v, d, w) ==
    \E k \in 1..Len(v) : v[k].date = DateObj(d) /\ v[k].weight = w

HasRow(rows, d, w) ==
    \E i \in 1..Len(rows) : rows[i].date = DateObj(d) /\ rows[i].weight = w

\* C2: merge_uploaded_csv returns the stored collection overridden by the
\* upload: every validly uploaded date carries an uploaded weight, stored or
\* not; every other stored date keeps its weight; no other date appears.
C2_MergeIsOverride ==
    (call.op = "merge" /\ {"date", "weight"} \subseteq upload.cols) =>
        LET v == valid_upload(upload.rows)
        IN  /\ ret.err = "none"
            /\ \A d \in Dates :
                  /\ HasDate(v, DateObj(d)) =>
                        \E i \in 1..Len(ret.rows) :
                            /\ ret.rows[i].date = DateObj(d)
                            /\ UploadGives(v, d, ret.rows[i].weight)
                  /\ (~HasDate(v, DateObj(d)) /\ HasDate(df["A"], DateObj(d))) =>
                        \E i \in 1..Len(df["A"]) :
                            /\ df["A"][i].date = DateObj(d)
                            /\ HasRow(ret.rows, d, df["A"][i].weight)
                  /\ (~HasDate(v, DateObj(d)) /\ ~HasDate(df["A"], DateObj(d))) =>
                        ~HasDate(ret.rows, DateObj(d))

\* C2 witness: the merge was called with a valid row for a day that is not
\* stored.
C2_Witness ==
    /\ call.op = "merge"
    /\ {"date", "weight"} \subseteq upload.cols
    /\ \E d \in Dates :
          /\ HasDate(valid_upload(upload.rows), DateObj(d))
          /\ ~HasDate(df["A"], DateObj(d))

OutOfRangeRow(r) ==
    LET w == round1(to_numeric(r.weight))
    IN  w[1] = "num" /\ (w[2] < WeightMin \/ w[2] > WeightMax)

WithoutOutOfRange(up) ==
    Table(up.cols, Mask(up.rows, {i \in 1..Len(up.rows) : ~OutOfRangeRow(up.rows[i])}))

C5_MissingColumnRaises ==
    [][(/\ pc["A"] = "form"
        /\ pc'["A"] = "merged"
        /\ ~({"date", "weight"} \subseteq upload.cols))
       => (/\ ret'.err = "ValueError"
           /\ ret'.rows = <<>>
           /\ wfile' = wfile
           /\ df' = df
           /\ load_weights(wfile').rows = df'["A"])]_vars

\* C5 witness: the merge was called on a stored collection of two days with
\* a table that has a date column and no weight column.
C5_Witness ==
    /\ call.op = "merge"
    /\ upload.cols = {"date"}
    /\ Len(df["A"]) = 2

\* C6: cleaning an already cleaned collection changes nothing: the load-time
\* cleaning applied to what load_weights (load_exercises) returned gives the
\* same collection.
C6_NormalizeIdempotent ==
    /\ call.op = "load_weights" => normalize_weights(ret.rows) = ret.rows
    /\ (call.op = "load_exercises" /\ ret.err = "none") =>
          normalize_exercises(ret.rows) = Ok(ret.rows)

\* C6 witness: load_exercises returned one session from a file of two rows.
C6_Witness ==
    /\ call.op = "load_exercises"
    /\ ret.err = "none"
    /\ Len(efile.rows) = 2
    /\ Len(ret.rows) = 1

\* C7: a valid collection that was just saved loads back as its cleaned
\* form, for weights and for exercises.
C7_RoundTrip ==
    /\ call.op = "save_weights" =>
          load_weights(wfile) = Ok(normalize_weights(df["A"]))
    /\ call.op = "save_exercises" =>
          /\ ret.err = "none"
          /\ load_exercises(efile) = normalize_exercises(ex_df["A"])

\* C7 witness: a collection of two sessions was saved.
C7_Witness ==
    /\ call.op = "save_exercises"
    /\ ret.err = "none"
    /\ Len(ex_df["A"]) = 2

\* C8: load_weights and load_exercises return a collection, whatever the
\* stored file holds.
C8_LoadersNeverRaise ==
    call.op \in {"load_weights", "load_exercises"} => ret.err = "none"

\* C8 witness: load_exercises ran on a file holding a row that does not
\* survive the cleaning.
C8_Witness ==
    /\ call.op = "load_exercises"
    /\ efile.st = "table"
    /\ Len(efile.rows) = 2
    /\ ret = Ok(<<>>)

\* C9: load_settings returns {goal_weight: null} when the file is missing,
\* is not JSON, holds a JSON value that is no object, or holds an object
\* whose goal_weight is not numeric.
C9_SettingsFallback ==
    (call.op = "load_settings" /\ (sfile.st # "object" \/ sfile.gw = Bad)) =>
        ret = Settings(JNull)

\* C9 witness: load_settings ran on a file that is not JSON.
C9_Witness ==
    /\ call.op = "load_settings"
    /\ sfile.st = "garbage"

\* C10: the ensure_storage of a starting run creates exactly the files that
\* were absent (header only, or the default settings), leaves every other
\* file as it was, and would change nothing if it ran again.
C10_EnsureStorageKeepsFiles ==
    [][pc["A"] = "idle"
       => (/\ wfile' = IF wfile.st = "absent" THEN Table({"date", "weight"}, <<>>)
                       ELSE wfile
           /\ efile' = IF efile.st = "absent"
                       THEN Table({"date", "activity", "duration_min"}, <<>>)
                       ELSE efile
           /\ sfile' = IF sfile.st = "absent" THEN SettingsFile("object", JNull)
                       ELSE sfile
           /\ ensure_weights(wfile') = wfile'
           /\ ensure_exercises(efile') = efile'
           /\ ensure_settings(sfile') = sfile')]_vars

\* C10 witness: a run has started over a weights file of two days, one of
\* them saved by the weight form, and the exercises file exists with its
\* header only.
C10_Witness ==
    /\ call.op = "begin"
    /\ pc["A"] = "form"
    /\ wfile.st = "table"
    /\ Len(wfile.rows) = 2
    /\ \E i \in 1..Len(wfile.rows) : wfile.rows[i].weight = Num(7250)
    /\ efile = Table(ExerciseCols, <<>>)


\* =========================================================== aggregator
\* compute_stats, filter_range and the charts read the collection a run
\* loaded; they write nothing.
MaxStatRows == 3
MaxSeries == 8

\* date.today(), as a day number
Today == 400

\* The range labels (lines 210-212, 217-227) are written here in ASCII:
\* "all" the all-time label, "1w" one week, "1m" one month, "3m" three
\* months, "6m" half a year, "1y" one year, and the older "30d", "90d",
\* "180d".  Any other text is an unrecognized label.
AllTime == "all"

\* days_map.get(range_label): 0 stands for None
days_map_default_week(range_label) ==
    CASE range_label \in {"1m", "30d"} -> 30
      [] range_label \in {"3m", "90d"} -> 90
      [] range_label \in {"6m", "180d"} -> 180
      [] range_label = "1y" -> 365
      [] OTHER -> 7

days_map(range_label) ==
    CASE range_label = "1w" -> 7
      [] range_label \in {"1m", "30d"} -> 30
      [] range_label \in {"3m", "90d"} -> 90
      [] range_label \in {"6m", "180d"} -> 180
      [] range_label = "1y" -> 365
      [] OTHER -> 0

\* today - timedelta(days=days - 1)
window_start_off_by_one(days) == Today - days

window_start(days) == Today - (days - 1)

\* frame.loc[pd.to_datetime(frame["date"]).dt.date >= start]
since(frame, start) ==
    Mask(frame, {i \in 1..Len(frame) : frame[i].date[2] >= start})

filter_range(frame, range_label) ==
    IF frame = <<>> THEN frame
    ELSE IF range_label = AllTime THEN frame
    ELSE IF days_map(range_label) = 0 THEN frame
    ELSE since(frame, window_start(days_map(range_label)))

RECURSIVE SumWeights(_)
SumWeights(d) ==
    IF d = <<>> THEN 0 ELSE d[1].weight[2] + SumWeights(Tail(d))

MinWeight(d) ==
    LET w == {d[i].weight[2] : i \in 1..Len(d)}
    IN  CHOOSE x \in w : \A y \in w : x <= y

MaxWeight(d) ==
    LET w == {d[i].weight[2] : i \in 1..Len(d)}
    IN  CHOOSE x \in w : \A y \in w : x >= y

\* round(total / n, 1) in floating point: the nearest tenth of a kg; when
\* total / n lies exactly between two tenths, the float that stands for it
\* lies on either side, so either tenth can come out.
round1_of_mean(total, n) ==
    LET lo == ((total \div n) \div 10) * 10
        r == total - lo * n
    IN  IF 2 * r < 10 * n THEN {lo}
        ELSE IF 2 * r > 10 * n THEN {lo + 10}
        ELSE {lo, lo + 10}

NoStats == [avg |-> JNull, delta |-> JNull, min |-> JNull, max |-> JNull]

\* last - first of the window in date order, lines 197-199
stats_delta_max_min(d) == MaxWeight(d) - MinWeight(d)

stats_delta(d) == d[Len(d)].weight[2] - d[1].weight[2]

\* compute_stats(df, days): the summaries it can return
compute_stats(frame, days) ==
    LET d == sort_values(since(frame, window_start(days)))
    IN  IF frame = <<>> THEN {NoStats}
        ELSE IF d = <<>> THEN {NoStats}
        ELSE {[avg |-> Num(a),
               delta |-> Num(RoundHalfEven(stats_delta(d), 10)),
               min |-> Num(RoundHalfEven(MinWeight(d), 10)),
               max |-> Num(RoundHalfEven(MaxWeight(d), 10))] :
                 a \in round1_of_mean(SumWeights(d), Len(d))}

\* ---- inputs of the aggregator
StatAges == {0, 3, 6, 7, 30}

StatRows ==
    [date : {DateObj(Today - k) : k \in StatAges},
     weight : {Num(7000), Num(7100), Num(7110), Num(7200)}]

StatCollections == {c \in SeqsUpTo(StatRows, MaxStatRows) : UniqueKeys(c)}

RangeAges == {0, 6, 7, 29, 30, 364, 365}

RangeRows == [date : {DateObj(Today - k) : k \in RangeAges}, weight : {Num(7000)}]

RangeCollections == {c \in SeqsUpTo(RangeRows, MaxStatRows) : UniqueKeys(c)}

StatDays == {7, 30}

RangeLabels == {"all", "1w", "1m", "1y", "bogus", ""}

CallWith(op, who, arg) == [op |-> op, who |-> who, hit |-> FALSE, arg |-> arg]

\* --------------------------------------------------- per-activity pivot
\* Sum of the durations of the rows of ex at positions idx (tenths).
RECURSIVE SumDurations(_)
SumDurations(ex) ==
    IF ex = <<>> THEN 0 ELSE ex[1].duration_min[2] + SumDurations(Tail(ex))

\* The rows of ex of one day and one activity
sessions(ex, d, a) ==
    Mask(ex, {i \in 1..Len(ex) : ex[i].date[2] = d /\ ex[i].activity = a})

\* by_act.pivot_table(index="date", columns="activity", values=
\* "duration_min", aggfunc="sum").reindex(full_days, fill_value=0): the
\* pivot has a row per day that has a session and a column per activity
\* that has one; a cell is the sum of its sessions, and NaN where the day
\* has none of that activity.  reindex adds the days between the first and
\* the last that had no row, and fills those new rows with 0; the cells of
\* the rows that were there are left as they are.
pivot(ex_show) ==
    LET days == {ex_show[i].date[2] : i \in 1..Len(ex_show)}
        acts == {ex_show[i].activity : i \in 1..Len(ex_show)}
        first == CHOOSE d \in days : \A e \in days : d <= e
        last == CHOOSE d \in days : \A e \in days : e <= d
        full_days == first..last
    IN  [index |-> full_days,
         columns |-> acts,
         cell |-> [k \in full_days \X acts |->
                     IF k[1] \notin days THEN Num(0)
                     ELSE IF sessions(ex_show, k[1], k[2]) = <<>> THEN NaN
                     ELSE round0(Num(SumDurations(sessions(ex_show, k[1], k[2]))))]]

\* Loaded exercise collections of the last three days: unique keys, sorted.
PivotRows ==
    [date : {DateObj(Today - a) : a \in 0..2},
     activity : {Str("run"), Str("walk")},
     duration_min : {Num(300), Num(450)}]

PivotCollections ==
    {c \in SeqsUpTo(PivotRows, MaxStatRows) : UniqueKeys(c) /\ IsSorted(c)}

InitView ==
    /\ pc = [s \in Writers |-> "idle"]
    /\ call = Call("init", "A", FALSE)
    /\ ret = Ok(<<>>)
    /\ upload = NoUpload
    /\ wfile = Absent /\ efile = Absent /\ sfile = Absent
    /\ \/ /\ ex_df = [s \in Writers |-> <<>>]
          /\ \E c \in StatCollections \cup RangeCollections :
                df = [s \in Writers |-> c]
       \/ /\ df = [s \in Writers |-> <<>>]
          /\ \E c \in PivotCollections : ex_df = [s \in Writers |-> c]

\* s7 = compute_stats(df, 7), lines 378, 838, 839
Stats(s, days) ==
    /\ pc[s] = "idle"
    /\ ret' \in compute_stats(df[s], days)
    /\ call' = CallWith("compute_stats", s, days)
    /\ pc' = [pc EXCEPT ![s] = "shown"]
    /\ UNCHANGED <<wfile, efile, sfile, upload, df, ex_df>>

\* show_df = filter_range(df, range_label), lines 409, 772
Filter(s, range_label) ==
    /\ pc[s] = "idle"
    /\ ret' = Ok(filter_range(df[s], range_label))
    /\ call' = CallWith("filter_range", s, range_label)
    /\ pc' = [pc EXCEPT ![s] = "shown"]
    /\ UNCHANGED <<wfile, efile, sfile, upload, df, ex_df>>

\* ex_show = filter_range(load_exercises(), range_label) and the pivot of
\* it, lines 660-680; nothing is drawn when ex_show is empty (661-662).
Pivot(s, range_label) ==
    /\ pc[s] = "idle"
    /\ LET ex_show == filter_range(ex_df[s], range_label)
       IN  ret' = IF ex_show = <<>> THEN Ok(<<>>) ELSE pivot(ex_show)
    /\ call' = CallWith("pivot", s, range_label)
    /\ pc' = [pc EXCEPT ![s] = "shown"]
    /\ UNCHANGED <<wfile, efile, sfile, upload, df, ex_df>>

NextView ==
    \/ \E days \in StatDays : Stats("A", days)
    \/ \E l \in RangeLabels : Filter("A", l)
    \/ \E l \in RangeLabels : Pivot("A", l)

SpecView == InitView /\ [][NextView]_vars

\* ------------------------------------------------------ moving averages
MaWindow == 7

\* The whole series up to row i (an expanding mean)
rolling_window_expanding(i) == 1..i

\* rolling(window=7, min_periods=1): the rows the window ending at row i
\* holds, the last 7 or all of them when there are fewer
rolling_window(i) == {j \in 1..i : j > i - MaWindow}

\* All the sequences that take their i-th element from the i-th set
RECURSIVE Choices(_)
Choices(sets) ==
    IF sets = <<>> THEN {<<>>}
    ELSE {<<x>> \o t : x \in Head(sets), t \in Choices(Tail(sets))}

\* gdf["ma7"] = gdf["weight"].rolling(window=7, min_periods=1).mean()
\* .round(1), on the filtered rows sorted by date: the possible charts.
weight_ma7(show_df) ==
    LET gdf == sort_values(show_df)
        n == Len(gdf)
        total == [i \in 1..n |->
                    SumWeights(Mask(gdf, rolling_window(i)))] \o <<>>
        ma == [i \in 1..n |->
                 round1_of_mean(total[i], Cardinality(rolling_window(i)))] \o <<>>
    IN  {[i \in 1..n |-> [date |-> gdf[i].date, weight |-> gdf[i].weight,
                          ma7 |-> Num(m[i])]] \o <<>> : m \in Choices(ma)}

\* ex_show_dash.groupby("date", as_index=False)["duration_min"].sum()
\* .sort_values("date"), then round(0).astype(int) of the sums
daily_sum(ex_show) ==
    LET days == {ex_show[i].date[2] : i \in 1..Len(ex_show)}
        rank(d) == Cardinality({e \in days : e <= d})
        day == [p \in 1..Cardinality(days) |->
                  CHOOSE d \in days : rank(d) = p] \o <<>>
    IN  [p \in 1..Cardinality(days) |->
           [date |-> DateObj(day[p]),
            duration_min |-> round0(Num(SumDurations(
                Mask(ex_show, {i \in 1..Len(ex_show) :
                                 ex_show[i].date[2] = day[p]}))))]] \o <<>>

\* daily["ma7"] = daily["duration_min"].rolling(window=7, min_periods=1)
\* .mean().round(0).astype(int): the mean of whole minutes is exact in
\* floating point where it is a half, so the tie goes to the even minute.
exercise_ma7(ex_show) ==
    LET daily == daily_sum(ex_show)
        n == Len(daily)
    IN  [i \in 1..n |->
           [date |-> daily[i].date, duration_min |-> daily[i].duration_min,
            ma7 |-> Num(LET k == Cardinality(rolling_window(i))
                            t == SumDurations(Mask(daily, rolling_window(i)))
                            q == (t \div k) \div 10
                            r == t - q * 10 * k
                        IN  IF 2 * r < 10 * k THEN q * 10
                            ELSE IF 2 * r > 10 * k THEN (q + 1) * 10
                            ELSE IF q % 2 = 0 THEN q * 10 ELSE (q + 1) * 10)]] \o <<>>

\* Loaded weight collections: one weighing a day up to today, sorted
ChartWeights ==
    UNION {{[i \in 1..n |-> [date |-> DateObj(Today - n + i), weight |-> Num(w[i])]] \o <<>> :
                w \in [1..n -> {7000, 7010}]} : n \in 0..MaxSeries}

\* The sessions of one day: a run of 30 or 31 minutes, or a run and a walk
DaySessions(d) ==
    {<<[date |-> DateObj(d), activity |-> Str("run"), duration_min |-> Num(300)]>>,
     <<[date |-> DateObj(d), activity |-> Str("run"), duration_min |-> Num(310)]>>,
     <<[date |-> DateObj(d), activity |-> Str("run"), duration_min |-> Num(300)],
       [date |-> DateObj(d), activity |-> Str("walk"), duration_min |-> Num(450)]>>}

RECURSIVE Flatten(_)
Flatten(ss) == IF ss = <<>> THEN <<>> ELSE Head(ss) \o Flatten(Tail(ss))

\* Loaded exercise collections: sessions on each day up to today, sorted
ChartExercises ==
    UNION {{Flatten(c) : c \in Choices([i \in 1..n |-> DaySessions(Today - n + i)])} :
                n \in 0..MaxSeries}

ChartLabels == {"all", "1w"}

InitChart ==
    /\ pc = [s \in Writers |-> "idle"]
    /\ call = Call("init", "A", FALSE)
    /\ ret = Ok(<<>>)
    /\ upload = NoUpload
    /\ wfile = Absent /\ efile = Absent /\ sfile = Absent
    /\ \/ /\ ex_df = [s \in Writers |-> <<>>]
          /\ \E c \in ChartWeights : df = [s \in Writers |-> c]
       \/ /\ df = [s \in Writers |-> <<>>]
          /\ \E c \in ChartExercises : ex_df = [s \in Writers |-> c]

\* The weight chart, lines 408-414 and 772-781
WeightChart(s, range_label) ==
    /\ pc[s] = "idle"
    /\ LET show_df == filter_range(df[s], range_label)
       IN  IF show_df = <<>> THEN ret' = Ok(<<>>)
           ELSE \E g \in weight_ma7(show_df) : ret' = Ok(g)
    /\ call' = CallWith("weight_chart", s, range_label)
    /\ pc' = [pc EXCEPT ![s] = "shown"]
    /\ UNCHANGED <<wfile, efile, sfile, upload, df, ex_df>>

\* The daily exercise chart, lines 429-435
ExerciseChart(s, range_label) ==
    /\ pc[s] = "idle"
    /\ LET ex_show == filter_range(ex_df[s], range_label)
       IN  ret' = IF ex_show = <<>> THEN Ok(<<>>) ELSE Ok(exercise_ma7(ex_show))
    /\ call' = CallWith("exercise_chart", s, range_label)
    /\ pc' = [pc EXCEPT ![s] = "shown"]
    /\ UNCHANGED <<wfile, efile, sfile, upload, df, ex_df>>

NextChart ==
    \/ \E l \in ChartLabels : WeightChart("A", l)
    \/ \E l \in ChartLabels : ExerciseChart("A", l)

SpecChart == InitChart /\ [][NextChart]_vars

\* ------------------------------------------------- long tables, same keys
MaxLong == 18

\* sort_values("date") sorts by one column with the default kind
\* "quicksort", which does not promise to keep rows of equal date in their
\* order.  The sort numpy runs on the column of date objects is an insertion
\* sort, which keeps them, on a partition of at most 17 rows; a longer
\* table is partitioned around a pivot first, which swaps rows that equal
\* the pivot across it.
StableUpTo == 17

\* All the orders of the rows of s
RECURSIVE Perms(_)
Perms(s) ==
    IF s = <<>> THEN {<<>>}
    ELSE UNION {{<<s[i]>> \o p : p \in Perms(Mask(s, (1..Len(s)) \ {i}))} :
                    i \in 1..Len(s)}

\* The orders of a key-sorted table t that differ in the order of rows of
\* equal key only
RECURSIVE EqualKeyOrders(_)
EqualKeyOrders(t) ==
    IF t = <<>> THEN {<<>>}
    ELSE LET m == Cardinality({i \in 1..Len(t) : RowKey(t[i]) = RowKey(t[1])})
         IN  {p \o r : p \in Perms(SubSeq(t, 1, m)),
                       r \in EqualKeyOrders(SubSeq(t, m + 1, Len(t)))}

\* df.sort_values("date"), line 67: the tables it can return
sort_values_date(s) ==
    IF Len(s) <= StableUpTo THEN {sort_values(s)}
    ELSE EqualKeyOrders(sort_values(s))

\* load_weights on a file of any length: the collections it can return
load_weights_any(file) ==
    LET rd == read_csv(file)
        df0 == IF rd.err # "none" THEN <<>> ELSE rd.rows
        df1 == IF ~(WeightCols \subseteq file.cols) THEN <<>> ELSE df0
    IN  IF df1 # <<>>
        THEN {Ok(drop_duplicates(g)) : g \in sort_values_date(clean_weights(df1))}
        ELSE {Ok(<<>>)}

\* Files with rows of the same key: n rows, row k dated day k, but the rows
\* at the positions D (two or three of them) all carry the day of the first
\* of them.  Row k holds the value k so that rows can be told apart.
DupPositions ==
    UNION {{<<n, D>> : D \in {{i, j, k} : i, j, k \in 1..n} \ {{i} : i \in 1..n}} :
              n \in {2, 3, MaxLong - 1, MaxLong}}

DupDay(D, k) == IF k \in D THEN CHOOSE i \in D : \A j \in D : i <= j ELSE k

DupWeightFiles ==
    {Table(WeightCols,
           [k \in 1..nd[1] |-> [date |-> IsoText(DupDay(nd[2], k)),
                                weight |-> Num(7000 + 10 * k)]] \o <<>>) :
        nd \in DupPositions}

DupExerciseFiles ==
    {Table(ExerciseCols,
           [k \in 1..nd[1] |-> [date |-> IsoText(DupDay(nd[2], k)),
                                activity |-> Str("run"),
                                duration_min |-> Num(10 * k)]] \o <<>>) :
        nd \in DupPositions}

InitDup ==
    /\ InitLocal
    /\ upload = NoUpload
    /\ sfile = Absent
    /\ \/ wfile \in DupWeightFiles /\ efile = Absent
       \/ efile \in DupExerciseFiles /\ wfile = Absent

\* df = load_weights() on a file of any length
LoadWeightsAny(s) ==
    /\ pc[s] = "idle"
    /\ ret' \in load_weights_any(wfile)
    /\ call' = Call("load_weights", s, FALSE)
    /\ pc' = [pc EXCEPT ![s] = "loaded"]
    /\ UNCHANGED <<wfile, efile, sfile, upload, df, ex_df>>

NextDup == LoadWeightsAny("A") \/ LoadExercises("A")

SpecDup == InitDup /\ [][NextDup]_vars

\* ------------------------------------------------------------------ C11
\* The entries of the loaded collection that lie in the window of a call
InWindow(c, days) ==
    {i \in 1..Len(c) : c[i].date[2] >= Today - (days - 1)}

\* C11: compute_stats returns four nulls exactly when no entry has
\* date >= today - (days - 1); otherwise no field is null, and the call
\* returns what it can return for the entries of the window alone.
C11_StatsWindow ==
    call.op = "compute_stats" =>
        LET c == df["A"]
            w == InWindow(c, call.arg)
        IN  /\ (w = {}) <=> (ret = NoStats)
            /\ w # {} =>
                  /\ ret.avg # JNull /\ ret.delta # JNull
                  /\ ret.min # JNull /\ ret.max # JNull
                  /\ ret \in compute_stats(Mask(c, w), call.arg)
                  /\ \A i \in w : ret.min[2] <= c[i].weight[2] /\ c[i].weight[2] <= ret.max[2]
                  /\ \E i \in w : ret.min[2] = c[i].weight[2]
                  /\ \E i \in w : ret.max[2] = c[i].weight[2]
                  /\ ret.min[2] <= ret.avg[2] /\ ret.avg[2] <= ret.max[2]

\* C11 witness: a 7-day summary of a collection with an entry inside the
\* window and a heavier and a lighter entry outside it.
C11_Witness ==
    /\ call.op = "compute_stats"
    /\ call.arg = 7
    /\ ret # NoStats
    /\ \E i, j, k \in 1..Len(df["A"]) :
          /\ df["A"][i].date[2] >= Today - 6
          /\ df["A"][j].date[2] < Today - 6
          /\ df["A"][k].date[2] < Today - 6
          /\ df["A"][j].weight[2] > ret.max[2]
          /\ df["A"][k].weight[2] < ret.min[2]


\* ------------------------------------------------------------------ C12
\* The spec's scenario: (d-6, 70.0), (d-3, 71.0), (d, 72.0)
StatsScenario ==
    {[date |-> DateObj(Today - 6), weight |-> Num(7000)],
     [date |-> DateObj(Today - 3), weight |-> Num(7100)],
     [date |-> DateObj(Today), weight |-> Num(7200)]}

\* C12: for a non-empty window, delta is the weight at the latest date of
\* the window minus the weight at its earliest date, whatever the row order
\* of the collection; a window of one sample gives 0; the scenario gives
\* avg 71.0, delta 2.0, min 70.0, max 72.0.
C12_DeltaLastMinusFirst ==
    (call.op = "compute_stats" /\ ret # NoStats) =>
        LET c == df["A"]
            w == InWindow(c, call.arg)
            latest == CHOOSE i \in w : \A k \in w : c[k].date[2] <= c[i].date[2]
            earliest == CHOOSE i \in w : \A k \in w : c[i].date[2] <= c[k].date[2]
        IN  /\ ret.delta = Num(c[latest].weight[2] - c[earliest].weight[2])
            /\ Cardinality(w) = 1 => ret.delta = Num(0)
            /\ ({c[i] : i \in 1..Len(c)} = StatsScenario /\ call.arg = 7) =>
                  ret = [avg |-> Num(7100), delta |-> Num(200),
                         min |-> Num(7000), max |-> Num(7200)]

\* C12 witness: three samples in the window, given out of date order, whose
\* delta is not max - min.
C12_Witness ==
    /\ call.op = "compute_stats"
    /\ ret # NoStats
    /\ Cardinality(InWindow(df["A"], call.arg)) = 3
    /\ ~IsSorted(df["A"])
    /\ ret.delta[2] < 0
    /\ ret.delta[2] # ret.max[2] - ret.min[2]


\* ------------------------------------------------------------------ C13
RecognizedLabels == {"1w", "1m", "3m", "6m", "1y", "30d", "90d", "180d"}

\* C13: filter_range returns the collection itself, same rows in the same
\* order, for the all-time label and for any label it does not recognize;
\* for a recognized label with day count n it returns exactly the rows with
\* date >= today - (n - 1), in their order.
C13_FilterRange ==
    call.op = "filter_range" =>
        LET c == df["A"]
            l == call.arg
        IN  /\ l \notin RecognizedLabels => ret = Ok(c)
            /\ l \in RecognizedLabels =>
                  ret = Ok(Mask(c, {i \in 1..Len(c) :
                                      c[i].date[2] >= Today - (days_map(l) - 1)}))

\* C13 witness: the one-year filter kept two of three rows, the kept rows
\* not in date order, one of them exactly 364 days old.
C13_Witness ==
    /\ call.op = "filter_range"
    /\ call.arg = "1y"
    /\ Len(df["A"]) = 3
    /\ Len(ret.rows) = 2
    /\ ~IsSorted(ret.rows)
    /\ \E i \in 1..Len(ret.rows) : ret.rows[i].date = DateObj(Today - 364)


\* ------------------------------------------------------------------ C14
\* C14: the per-activity pivot is a dense grid: it has a cell for every day
\* from the first to the last day with a session and for every activity, and
\* the cell of a (day, activity) with no session holds 0, also on a day that
\* has sessions of other activities; no cell is NaN.
C14_PivotDenseZero ==
    (call.op = "pivot" /\ ret # Ok(<<>>)) =>
        LET ex_show == filter_range(ex_df["A"], call.arg)
        IN  \A d \in ret.index : \A a \in ret.columns :
                /\ <<d, a>> \in DOMAIN ret.cell
                /\ ret.cell[<<d, a>>] # NaN
                /\ sessions(ex_show, d, a) = <<>> => ret.cell[<<d, a>>] = Num(0)

\* C14 case: a day with run and walk, the next day with run only; the walk
\* cell of the second day is NaN.
C14_Witness ==
    /\ call.op = "pivot"
    /\ ret # Ok(<<>>)
    /\ ret.index = (Today - 2)..(Today - 1)
    /\ ret.columns = {Str("run"), Str("walk")}
    /\ ret.cell[<<Today - 1, Str("walk")>>] = NaN
    /\ ret.cell[<<Today - 1, Str("run")>>] = Num(300)
    /\ ret.cell[<<Today - 2, Str("walk")>>] = Num(450)


\* ------------------------------------------------------------------ C15
\* The number of values the moving average at row i covers: min(i, 7)
RecentCount(i) == IF i < 7 THEN i ELSE 7

\* ma is a multiple of ten units nearest to total / k
NearestTen(ma, total, k) ==
    /\ ma % 10 = 0
    /\ 2 * (ma * k - total) <= 10 * k
    /\ 2 * (total - ma * k) <= 10 * k

\* C15: the charted rows are the filtered rows in date order (one row per
\* day, holding the day's total, for the exercise chart); the moving average
\* at row i is the mean of the min(i, 7) most recent values ending at that
\* row, rounded to one decimal for weights and to a whole minute for the
\* daily exercise minutes; at the first row it is the row's own value.
C15_MovingAverage ==
    /\ (call.op = "weight_chart" /\ ret # Ok(<<>>)) =>
          LET g == ret.rows
              shown == sort_values(filter_range(df["A"], call.arg))
          IN  /\ Len(g) = Len(shown)
              /\ \A i \in 1..Len(g) :
                    /\ g[i].date = shown[i].date
                    /\ g[i].weight = shown[i].weight
                    /\ NearestTen(g[i].ma7[2],
                           SumWeights(Mask(shown, {j \in 1..i : i - j < RecentCount(i)})),
                           RecentCount(i))
              /\ g[1].ma7 = g[1].weight
    /\ (call.op = "exercise_chart" /\ ret # Ok(<<>>)) =>
          LET g == ret.rows
              ex_show == filter_range(ex_df["A"], call.arg)
          IN  /\ IsSorted(g) /\ UniqueKeys(g)
              /\ {g[i].date : i \in 1..Len(g)} =
                    {ex_show[i].date : i \in 1..Len(ex_show)}
              /\ \A i \in 1..Len(g) :
                    /\ g[i].duration_min[2] =
                          SumDurations(Mask(ex_show, {j \in 1..Len(ex_show) :
                                                        ex_show[j].date = g[i].date}))
                    /\ NearestTen(g[i].ma7[2],
                           SumDurations(Mask(g, {j \in 1..i : i - j < RecentCount(i)})),
                           RecentCount(i))
              /\ g[1].ma7 = g[1].duration_min

\* C15 witness: a weight chart of eight rows whose eighth moving average,
\* 70.1, is that of the last seven weights (four of them 70.1) and not that
\* of all eight, and whose second moving average stands on a tie (70.05).
C15_Witness ==
    /\ call.op = "weight_chart"
    /\ ret # Ok(<<>>)
    /\ Len(ret.rows) = 8
    /\ ret.rows[1].weight = Num(7000)
    /\ ret.rows[2].weight = Num(7010)
    /\ SumWeights(ret.rows) = 56040
    /\ ret.rows[8].ma7 = Num(7010)


\* ------------------------------------------------------------------ C16
\* C16: when the file holds several rows of one key (date for weights,
\* date and activity for exercises), the loaded collection holds for that
\* key the value of the row that is last in file order, for any number and
\* placement of such rows.
C16_LastRowWins ==
    /\ call.op = "load_weights" =>
          \A i \in 1..Len(wfile.rows) :
              (\A j \in (i+1)..Len(wfile.rows) :
                    wfile.rows[j].date # wfile.rows[i].date)
              => \E p \in 1..Len(ret.rows) :
                    /\ ret.rows[p].date = DateObj(wfile.rows[i].date[2])
                    /\ ret.rows[p].weight = wfile.rows[i].weight
    /\ call.op = "load_exercises" =>
          \A i \in 1..Len(efile.rows) :
              (\A j \in (i+1)..Len(efile.rows) :
                    efile.rows[j].date # efile.rows[i].date)
              => \E p \in 1..Len(ret.rows) :
                    /\ ret.rows[p].date = DateObj(efile.rows[i].date[2])
                    /\ ret.rows[p].duration_min = efile.rows[i].duration_min

\* C16 case: a weight file of 18 rows whose 4th and 9th rows share a date;
\* the loaded collection holds the value of the 4th row for it.
C16_Witness ==
    /\ call.op = "load_weights"
    /\ Len(wfile.rows) = 18
    /\ wfile.rows[9].date = wfile.rows[4].date
    /\ Len(ret.rows) = 17
    /\ ret.rows[4] = [date |-> DateObj(4), weight |-> Num(7040)]


\* ------------------------------------------------------------------ C17
\* A stored exercise row with every field present and well formed: a date,
\* an activity that is not empty, a duration that is a number in range.
WellFormed(r) ==
    /\ r.date[1] = "iso"
    /\ r.activity[1] = "str" /\ r.activity[2] # ""
    /\ r.duration_min[1] = "num"
    /\ DurationMin <= RoundHalfEven(r.duration_min[2], 10)
    /\ RoundHalfEven(r.duration_min[2], 10) <= DurationMax

\* C17: load_exercises drops every row with an unparseable date, a missing
\* or empty activity, a non-numeric duration or a duration out of range:
\* every loaded row comes from a well-formed row of the file, and no error
\* is surfaced.
C17_IllFormedRowsDropped ==
    (call.op = "load_exercises" /\ efile.st = "table") =>
        /\ ret.err = "none"
        /\ \A p \in 1..Len(ret.rows) :
              \E i \in 1..Len(efile.rows) :
                  /\ WellFormed(efile.rows[i])
                  /\ ret.rows[p].date = DateObj(efile.rows[i].date[2])
                  /\ ret.rows[p].activity = efile.rows[i].activity
                  /\ ret.rows[p].duration_min =
                        Num(RoundHalfEven(efile.rows[i].duration_min[2], 10))

\* C17 case: a file of a well-formed row and a row with an empty activity;
\* both are loaded, the second under the label "nan".
C17_Witness ==
    /\ call.op = "load_exercises"
    /\ efile.st = "table"
    /\ Len(efile.rows) = 2
    /\ efile.rows[1].activity = Str("")
    /\ WellFormed(efile.rows[2])
    /\ ret.err = "none"
    /\ Len(ret.rows) = 2
    /\ \E p \in 1..2 : ret.rows[p].activity = Str("nan")


\* ------------------------------------------------------------------ C18
\* C18: whatever the stored file held and whatever exercise add/update,
\* delete and batch delete ran, every row of a loaded exercise collection
\* has 0 <= duration_min <= 1440; and an add/update whose duration is out
\* of that range leaves the exercise file as it is.
C18_DurationInRange ==
    /\ [](\A i \in 1..Len(ex_df["A"]) :
              /\ ex_df["A"][i].duration_min[1] = "num"
              /\ 0 <= ex_df["A"][i].duration_min[2]
              /\ ex_df["A"][i].duration_min[2] <= 14400)
    /\ [][call'.op = "add_exercise_out_of_range" => efile' = efile]_vars

\* C18 witness: the file holds a session of 1500 minutes besides one in
\* range; the run loaded the one in range, and its add/update with a
\* duration of 1441 minutes was turned down.
C18_Witness ==
    /\ call.op = "add_exercise_out_of_range"
    /\ efile.st = "table"
    /\ Len(efile.rows) = 2
    /\ \E i \in 1..2 : efile.rows[i].duration_min = Num(15000)
    /\ \E i \in 1..2 : efile.rows[i].duration_min = Num(304)


\* ------------------------------------------------------------------ C19
RowSet(c) == {c[i] : i \in 1..Len(c)}

\* What a step of the weight handlers must leave: d is the day entered, new
\* the rows that come in for it.
WeightFrame(d, new) ==
    LET stored == load_weights(wfile').rows
    IN  /\ UniqueKeys(stored)
        /\ RowSet(stored) =
              {r \in RowSet(df["A"]) : r.date # DateObj(d)} \cup new

\* The same for the exercise handlers and the session (d, act).
ExerciseFrame(d, act, new) ==
    LET stored == load_exercises(efile')
    IN  /\ stored.err = "none"
        /\ UniqueKeys(stored.rows)
        /\ RowSet(stored.rows) =
              {r \in RowSet(ex_df["A"]) :
                  ~(r.date = DateObj(d) /\ r.activity = Str(act))} \cup new

\* C19: after an upsert of (k, v) the stored collection is the collection
\* the run loaded, without any row of key k, plus the row (k, v); after a
\* delete of k it is the loaded collection without the row of key k; rows
\* of other keys keep their values; a delete of a key that is not stored
\* writes nothing.  For weights (key: date) and exercises (key: date and
\* activity).
C19_FrameEffect ==
    [][/\ \A d \in Dates, w \in WeightInputs :
             AddWeight("A", d, w) =>
                WeightFrame(d, {[date |-> DateObj(d), weight |-> round1(Num(w))]})
       /\ \A d \in Dates :
             DelWeight("A", d) =>
                /\ WeightFrame(d, {})
                /\ ~HasDate(df["A"], DateObj(d)) => wfile' = wfile
       /\ \A d \in Dates, act \in ActivityInputs, dur \in DurationInputs :
             (AddExercise("A", d, act, dur) /\ call'.op = "add_exercise") =>
                ExerciseFrame(d, act, {[date |-> DateObj(d), activity |-> Str(act),
                                        duration_min |-> Num(dur)]})
       /\ \A d \in Dates, act \in ActivityInputs :
             DelExercise("A", d, act) =>
                /\ ExerciseFrame(d, act, {})
                /\ ~HasSession(ex_df["A"], DateObj(d), Str(act)) => efile' = efile
      ]_vars

\* C19 case: the run had loaded a session under the label "nan" and added
\* a session of the same day under the label "NA"; the file holds both rows,
\* and the collection loaded from it holds one session for that day, under
\* the label "nan".
C19_Witness ==
    /\ call.op = "add_exercise"
    /\ ~call.hit
    /\ efile.st = "table"
    /\ Len(efile.rows) = 2
    /\ efile.rows[1].activity = Str("NA")
    /\ efile.rows[2].activity = Str("nan")
    /\ efile.rows[2].date = efile.rows[1].date
    /\ load_exercises(efile).rows =
          <<[date |-> DateObj(efile.rows[1].date[2]), activity |-> Str("nan"),
             duration_min |-> Num(300)]>>


\* ------------------------------------------------------------------ C20
\* C20: a writer's upsert saves the collection its run loaded, with its row
\* put in.  When nothing was written between its load and its save (the
\* cycles run one after the other), every day stored before is stored
\* after and the upserted row is stored: no update is lost.  When the other
\* writer saved a row of another day in between, that day is gone from the
\* file after the save.
C20_LostUpdate ==
    [][\A s \in Writers, d \in Dates, w \in WeightInputs :
          AddWeight(s, d, w) =>
             LET before == load_weights(wfile).rows
                 after == load_weights(wfile').rows
             IN  /\ HasRow(after, d, round1(Num(w)))
                 /\ df[s] = before =>
                       /\ call'.lost = {}
                       /\ \A i \in 1..Len(before) :
                             before[i].date # DateObj(d) =>
                                \E j \in 1..Len(after) : after[j] = before[i]
                 /\ \A i \in 1..Len(before) :
                       (before[i].date # DateObj(d)
                          /\ ~HasDate(df[s], before[i].date))
                       => ~HasDate(after, before[i].date)
      ]_vars

\* C20 witness: both writers loaded the empty file, A saved day 1, then B
\* saved day 2: both upserts completed, and the file holds day 2 only, the
\* save of B having dropped day 1.
C20_Witness ==
    /\ call.op = "add_weight"
    /\ call.who = "B"
    /\ ~call.hit
    /\ call.lost = {1}
    /\ StoredDates(wfile) = {2}

=============================================================================
